---- MODULE Spec2Model ----
(***************************************************************************)
(* Moyasar client library: the webhook ingestion pipeline                  *)
(* (WebhookService.processWebhook and its typed listener registry) and the *)
(* error handling of the resource services.                                *)
(*                                                                         *)
(* JavaScript values are encoded as follows.  An object is a function from *)
(* its own keys to values; a key the object does not have is not in the    *)
(* DOMAIN.  Scalars are strings: Undefined stands for the value undefined, *)
(* "true"/"false" for the two booleans.  A value whose kind is not known   *)
(* statically (a raw input, an unexpected_payload) is wrapped in a record  *)
(* [kind |-> ..., ...].  A message is the sequence of the fragments whose  *)
(* concatenation is the JavaScript string.                                 *)
(***************************************************************************)
EXTENDS Integers, Sequences, FiniteSets, TLC

VARIABLES
    listeners,      \* EventEmitter registry: event name -> sequence of listeners
    subscribeCalls, \* number of on / onAnyPaymentEvent calls made so far
    validatorKind,  \* which Metadata Validator was injected at construction
    pc,             \* position of the processWebhook run
    call,           \* arguments of the processWebhook run
    payload,        \* the run's `payload` local (after the parse stage)
    sigOk,          \* value the awaited verifyWebhookSignature resolves with
    trace,          \* pipeline stages the run has executed, in order
    validatorArgs,  \* arguments metadataValidator.parse was called with
    invoked,        \* listener invocations of the run, in order
    atCall,         \* history: the listeners of payload.type when the pending run was called
    result,         \* settlement of the promise processWebhook returned
    svcPc,          \* position of the service operation in flight
    svcCall,        \* the operation called and its arguments
    svcRequests,    \* requests the operation handed to apiClient.request
    svcOutcome,     \* what apiClient.request settled with
    svcResult,      \* settlement of the promise the operation returned
    utilCall,       \* the utility function applied last, with its arguments
    utilResult      \* what that application returned or threw

vars == <<listeners, subscribeCalls, validatorKind, pc, call, payload, sigOk,
          trace, validatorArgs, invoked, atCall, result,
          svcPc, svcCall, svcRequests, svcOutcome, svcResult,
          utilCall, utilResult>>

----
\* Bounds of the exploration

\* payload deviations from BaseChoice + subscribe calls in one scenario
MaxScenarioSize == 2

----
\* JavaScript values

Undefined == "undefined"
Absent == "<absent>"

EmptyObject == [k \in {} |-> Undefined]

Has(o, k) == k \in DOMAIN o

\* o[k] for a scalar field: undefined when the object has no such key
Get(o, k) == IF Has(o, k) THEN o[k] ELSE Undefined

JsUndefined == [kind |-> "undefined"]
JsNull == [kind |-> "null"]
JsNumber == [kind |-> "number"]
JsObject(o) == [kind |-> "object", obj |-> o]

\* text that is not JSON
Garbage == [kind |-> "garbage"]

\* a number a caller passes as an amount: floor + tenths/10, so that 10.5 is
\* Num(10, 5) and -0.5 is Num(-1, 5); the numbers stay below 2^53
Num(floor, tenths) == [floor |-> floor, tenths |-> tenths]

----
\* Error classes

ClassParent(c) ==
    CASE c = "WebhookValidationError" -> "WebhookError"
      [] c = "WebhookVerificationError" -> "WebhookError"
      [] c = "WebhookError" -> "MoyasarError"
      [] c = "PaymentError" -> "MoyasarError"
      [] c = "InvoiceError" -> "MoyasarError"
      [] c = "MoyasarError" -> "Error"
      [] c = "ZodError" -> "Error"
      [] c = "TypeError" -> "Error"
      [] c = "SyntaxError" -> "Error"
      [] OTHER -> "Object"

RECURSIVE Ancestors(_)
Ancestors(c) == IF c \in {"Error", "Object"} THEN {c} ELSE {c} \cup Ancestors(ClassParent(c))

\* err instanceof cls
InstanceOf(err, cls) == cls \in Ancestors(err.class)

\* new Error(message) and the built-in errors: no type, no statusCode
PlainError(cls, message) ==
    [class |-> cls, type |-> Undefined, statusCode |-> 0, message |-> message,
     unexpected_payload |-> JsUndefined]

\* new MoyasarError(message, type, statusCode, details)
MoyasarError(cls, message, type, statusCode) ==
    [class |-> cls, type |-> type, statusCode |-> statusCode, message |-> message,
     unexpected_payload |-> JsUndefined]

\* new WebhookError(message, details)
WebhookError(message) == MoyasarError("WebhookError", message, "WEBHOOK_ERROR", 500)

\* new WebhookValidationError({message, unexpected_payload})
WebhookValidationError(message, unexpected) ==
    [WebhookError(message) EXCEPT !.class = "WebhookValidationError",
                                  !.unexpected_payload = unexpected]

----
\* Webhook events and the payloads of the exploration

\* Object.values(WebhookEvent), in declaration order
ALL_WEBHOOK_EVENTS ==
    <<"payout_initiated", "payment_paid", "payment_failed", "payment_authorized",
      "payment_captured", "payment_refunded", "payment_voided", "payment_verified",
      "payment_abandoned", "payment_canceled", "payment_expired",
      "balance_transferred", "payout_paid", "payout_failed", "payout_canceled",
      "payout_returned">>

WebhookEvents == {ALL_WEBHOOK_EVENTS[i] : i \in DOMAIN ALL_WEBHOOK_EVENTS}

\* the event names the host passes to on / off in the exploration
EventInputs == {"payment_paid", "payment_failed"}

Listeners == {"l1", "l2"}

\* what one invocation of a listener does: return, throw, or return a
\* promise that is still pending
ListenerOutcomes == {"returns", "throws", "pending"}

RequiredFields == <<"id", "type", "created_at", "account_name", "data">>

PayloadFields == {"id", "type", "created_at", "secret_token", "account_name", "live", "data"}

GoodMetadata == [service |-> "delivery", date |-> "2030-01-01T00:00:00Z"]
BadMetadata == [service |-> "unsupported_service_name", date |-> "2030-01-01T00:00:00Z"]

\* the `data` values of the exploration: a payment snapshot without
\* metadata, with metadata the schema accepts, with metadata it rejects,
\* and a snapshot that itself has the fields the schema asks for
DataOf(sel) ==
    CASE sel = "plain" -> [id |-> "pay_123"]
      [] sel = "good" -> [id |-> "pay_123", metadata |-> GoodMetadata]
      [] sel = "bad" -> [id |-> "pay_123", metadata |-> BadMetadata]
      [] sel = "flat" -> [id |-> "pay_123", service |-> "pickup",
                          date |-> "2030-01-01T00:00:00Z"]

\* the valid payload of the tests
BaseChoice ==
    [id |-> "event_123", type |-> "payment_paid", created_at |-> "2030-01-01T00:00:00Z",
     secret_token |-> "secret", account_name |-> "test_account", live |-> "false",
     data |-> "plain"]

FieldChoices ==
    [id : {"event_123", Absent, Undefined, ""},
     type : {"payment_paid", "payment_failed", "bogus_event", Absent},
     created_at : {"2030-01-01T00:00:00Z", Absent},
     secret_token : {"secret", "", Absent},
     account_name : {"test_account", Absent},
     live : {"false", "yes", Absent},
     data : {"plain", "good", "bad", "flat", Absent}]

\* the object a choice of fields denotes
MkPayload(c) ==
    [f \in {g \in PayloadFields : c[g] # Absent} |->
        IF f = "data" THEN DataOf(c[f]) ELSE c[f]]

\* JSON text cannot carry undefined
JsonRepresentable(c) == \A f \in PayloadFields : c[f] # Undefined

ExpectedSecrets == {"secret", "correct_secret", "", Undefined}

\* rawPayload: a structured object, or a string or Buffer holding text
RawOfChoice(c) ==
    {[form |-> "object", doc |-> JsObject(MkPayload(c))]}
    \cup (IF JsonRepresentable(c)
          THEN {[form |-> f, doc |-> JsObject(MkPayload(c))] : f \in {"string", "buffer"}}
          ELSE {})

\* inputs that are no payload at all: text that is not JSON, the JSON texts
\* null and 42, and null passed for the object
OddRaws ==
    {[form |-> f, doc |-> d] : f \in {"string", "buffer"}, d \in {Garbage, JsNull, JsNumber}}
    \cup {[form |-> "object", doc |-> JsNull]}

NoCall == [raw |-> [form |-> "none", doc |-> JsUndefined], secret_token |-> Undefined]

BasePayload == MkPayload(BaseChoice)

\* in how many fields a payload differs from the valid payload of the tests
Deviations(p) ==
    Cardinality({f \in PayloadFields : ~Has(p, f) \/ p[f] # BasePayload[f]})

\* size of a call: the deviations of its payload, plus one for an expected
\* secret other than the one of the tests
CallSize(c) ==
    IF c = NoCall THEN 0
    ELSE (IF c.raw.doc.kind = "object" THEN Deviations(c.raw.doc.obj) ELSE 0)
         + (IF c.secret_token = BaseChoice.secret_token THEN 0 ELSE 1)

\* the calls processWebhook(rawPayload, {secret_token}) of the exploration
AllCalls ==
    {c \in {[raw |-> r, secret_token |-> s] :
                r \in OddRaws \cup UNION {RawOfChoice(d) : d \in FieldChoices},
                s \in ExpectedSecrets} :
        CallSize(c) <= MaxScenarioSize}

CallsBySize == [n \in 0..MaxScenarioSize |-> {c \in AllCalls : CallSize(c) <= n}]


----
\* WebhookValidation, WebhookUtils and the Metadata Validators

Ok(v) == [ok |-> TRUE, value |-> v]
Throw(e) == [ok |-> FALSE, error |-> e]

\* !o[k] for the fields of a payload (`data`, when present, is an object)
Falsy(o, k) == IF k = "data" THEN ~Has(o, k) ELSE Get(o, k) \in {Undefined, ""}

RECURSIVE Join(_)
\* errors.join(", ")
Join(errors) ==
    IF errors = <<>> THEN <<>>
    ELSE IF Len(errors) = 1 THEN errors[1]
    ELSE errors[1] \o <<", ">> \o Join(Tail(errors))

\* WebhookValidation.isValidWebhookEvent
isValidWebhookEvent(event) == event \in WebhookEvents

RECURSIVE validateRequired(_, _)
\* WebhookValidation.validateRequired: undefined, null and "" count as missing
validateRequired(obj, requiredFields) ==
    IF requiredFields = <<>> THEN <<>>
    ELSE (IF Falsy(obj, Head(requiredFields))
          THEN <<(<<Head(requiredFields), " is required">>)>>
          ELSE <<>>)
         \o validateRequired(obj, Tail(requiredFields))

\* WebhookUtils.validateWebhookPayload: the list of violated rules
validateWebhookPayload(p) ==
    validateRequired(p, RequiredFields)
    \o (IF ~Falsy(p, "type") /\ ~isValidWebhookEvent(Get(p, "type"))
        THEN <<(<<"Invalid webhook event type: ", Get(p, "type")>>)>>
        ELSE <<>>)
    \o (IF Get(p, "live") \notin {"true", "false"}
        THEN <<(<<"live field must be a boolean">>)>>
        ELSE <<>>)

\* WebhookUtils.verifyWebhookSignature: secret_token === payload.secret_token
verifyWebhookSignature(p, options) == options.secret_token = Get(p, "secret_token")

\* JSON.parse of the text a string or Buffer holds; a structured object
\* passed for the string is first converted to the text "[object Object]"
JsonParse(raw) ==
    IF raw.form = "object" THEN Throw(PlainError("SyntaxError", <<"SyntaxError">>))
    ELSE IF raw.doc = Garbage THEN Throw(PlainError("SyntaxError", <<"SyntaxError">>))
    ELSE Ok(raw.doc)

\* WebhookUtils.parseWebhookPayload
parseWebhookPayload(raw) ==
    LET parsed == JsonParse(raw)
        failed(cause) ==
            Throw(WebhookValidationError(<<"Failed to parse webhook payload: ", cause>>,
                                         JsObject(EmptyObject)))
    IN  IF ~parsed.ok THEN failed(parsed.error.message[1])
        ELSE IF parsed.value = JsNull THEN failed("TypeError")
        ELSE IF parsed.value = JsNumber
                \/ Falsy(parsed.value.obj, "id")
                \/ Falsy(parsed.value.obj, "type")
                \/ Falsy(parsed.value.obj, "data")
        THEN Throw(WebhookValidationError(<<"Invalid webhook payload structure">>,
                                          parsed.value))
        ELSE Ok(parsed.value.obj)

\* MoyasarClient.defaultParser: parse: payload => payload
DefaultValidator(x) == Ok(x)

\* z.coerce.date() applied to a date string
CoerceDate(d) ==
    IF d = "2030-01-01T00:00:00Z" THEN "Date(2030-01-01T00:00:00.000Z)" ELSE "Invalid Date"

\* the validator of the tests: z.object({service: z.enum(["delivery",
\* "pickup"]), date: z.coerce.date()}); unknown keys are stripped
SchemaValidator(x) ==
    IF Has(x, "service") /\ Has(x, "date") /\ x["service"] \in {"delivery", "pickup"}
    THEN Ok([service |-> x["service"], date |-> CoerceDate(x["date"])])
    ELSE Throw(PlainError("ZodError", <<"Invalid input">>))

ValidatorKinds == {"default", "schema"}

\* apiClient.metadataValidator.parse
MetadataValidatorParse(kind, x) ==
    IF kind = "default" THEN DefaultValidator(x) ELSE SchemaValidator(x)

----
\* processWebhook

Resolved(v) == [status |-> "resolved", value |-> v]
Rejected(e) == [status |-> "rejected", error |-> e]
NoResult == [status |-> "none"]
Pending == [status |-> "pending"]

\* WebhookService.handleError
WebhookHandleError(error, message) ==
    IF InstanceOf(error, "WebhookError") THEN error
    ELSE WebhookError(message \o <<": ">> \o error.message)

\* the outer catch of processWebhook
ProcessWebhookCatch(error) ==
    IF InstanceOf(error, "WebhookError") THEN error
    ELSE WebhookHandleError(error, <<"Failed to process webhook">>)

\* the parse stage: a structured object that has an `id` key is taken as it
\* is, anything else goes through parseWebhookPayload
SelectPayload(raw) ==
    IF raw.form = "object" /\ raw.doc = JsNull
    THEN [parsed |-> FALSE, r |-> Throw(PlainError("TypeError", <<"TypeError">>))]
    ELSE IF raw.form = "object" /\ Has(raw.doc.obj, "id")
    THEN [parsed |-> FALSE, r |-> Ok(raw.doc.obj)]
    ELSE [parsed |-> TRUE, r |-> parseWebhookPayload(raw)]

\* a structural stage that lets every payload through
StructuralCheck_Skipped(p) == Ok(p)

\* the structural stage of processWebhook
StructuralCheck(p) ==
    LET validationErrors == validateWebhookPayload(p)
    IN  IF Len(validationErrors) > 0
        THEN Throw(WebhookValidationError(
                 <<"Invalid webhook payload: ">> \o Join(validationErrors), JsObject(p)))
        ELSE Ok(p)

\* processWebhook from its call up to `await verifyWebhookSignature(...)`
ProcessWebhookSync(c) ==
    LET sel == SelectPayload(c.raw)
        t1 == IF sel.parsed THEN <<"parse">> ELSE <<>>
    IN  IF ~sel.r.ok
        THEN [pc |-> "done", payload |-> EmptyObject, sigOk |-> FALSE, trace |-> t1,
              result |-> Rejected(ProcessWebhookCatch(sel.r.error))]
        ELSE LET checked == StructuralCheck(sel.r.value)
             IN  IF ~checked.ok
                 THEN [pc |-> "done", payload |-> sel.r.value, sigOk |-> FALSE,
                       trace |-> t1 \o <<"validate">>,
                       result |-> Rejected(ProcessWebhookCatch(checked.error))]
                 ELSE [pc |-> "awaitVerify", payload |-> sel.r.value,
                       sigOk |-> verifyWebhookSignature(sel.r.value, c),
                       trace |-> t1 \o <<"validate", "verify">>,
                       result |-> Pending]

\* index of the first listener that throws, 0 when none does
FirstThrow(outs) ==
    IF \E i \in DOMAIN outs : outs[i] = "throws"
    THEN CHOOSE i \in DOMAIN outs : outs[i] = "throws" /\ \A j \in 1..(i - 1) : outs[j] # "throws"
    ELSE 0

\* an emit that calls the listeners newest first
Emit_NewestFirst(ls, outs, arg) ==
    LET k == FirstThrow(outs)
        n == IF k = 0 THEN Len(ls) ELSE k
    IN  [calls |-> [i \in 1..n |-> [listener |-> ls[Len(ls) + 1 - i], arg |-> arg,
                                    outcome |-> outs[i]]],
         r |-> IF k = 0 THEN Ok(Len(ls) > 0)
               ELSE Throw(PlainError("Error", <<"listener failed">>))]

\* EventEmitter.emit: the listeners of the event are called in order with the
\* argument; a listener that throws ends the emit with its exception
Emit(ls, outs, arg) ==
    LET k == FirstThrow(outs)
        n == IF k = 0 THEN Len(ls) ELSE k
    IN  [calls |-> [i \in 1..n |-> [listener |-> ls[i], arg |-> arg, outcome |-> outs[i]]],
         r |-> IF k = 0 THEN Ok(Len(ls) > 0)
               ELSE Throw(PlainError("Error", <<"listener failed">>))]

\* a verification failure raised as a validation error
SignatureFailure_AsValidation ==
    WebhookValidationError(<<"Webhook signature verification failed">>, JsUndefined)

\* the error thrown when the awaited verification is false
SignatureFailure == WebhookError(<<"Webhook signature verification failed">>)

\* an inner catch that attaches an empty object, as parseWebhookPayload does
InnerCatch_EmptyPayload(error, p) == WebhookValidationError(error.message, JsObject(EmptyObject))

\* the inner catch of processWebhook: whatever the inner try block threw
\* becomes a WebhookValidationError carrying `payload`
InnerCatch(error, p) == WebhookValidationError(error.message, JsObject(p))

\* the argument processWebhook passes to metadataValidator.parse
ValidatorArgument(p) == p["data"]

\* a dispatch that waits for what the listeners returned before it settles
ProcessWebhookDispatch_AwaitsListeners(kind, p, ls, outs) ==
    LET parsedPayloadData == MetadataValidatorParse(kind, ValidatorArgument(p))
    IN  IF ~parsedPayloadData.ok
        THEN [trace |-> <<"metadata">>, calls |-> <<>>,
              result |-> Rejected(ProcessWebhookCatch(
                             InnerCatch(parsedPayloadData.error, p)))]
        ELSE LET parsedPayload == [p EXCEPT !["data"] = parsedPayloadData.value]
                 emitted == Emit(ls, outs, parsedPayload)
             IN  [trace |-> <<"metadata", "emit">>, calls |-> emitted.calls,
                  result |-> IF ~emitted.r.ok
                             THEN Rejected(ProcessWebhookCatch(
                                      InnerCatch(emitted.r.error, p)))
                             ELSE IF \E i \in DOMAIN emitted.calls :
                                         emitted.calls[i].outcome = "pending"
                             THEN Pending
                             ELSE Resolved(parsedPayload)]

\* the inner try block of processWebhook: metadata validation, emit, return
ProcessWebhookDispatch(kind, p, ls, outs) ==
    LET parsedPayloadData == MetadataValidatorParse(kind, ValidatorArgument(p))
    IN  IF ~parsedPayloadData.ok
        THEN [trace |-> <<"metadata">>, calls |-> <<>>,
              result |-> Rejected(ProcessWebhookCatch(
                             InnerCatch(parsedPayloadData.error, p)))]
        ELSE LET parsedPayload == [p EXCEPT !["data"] = parsedPayloadData.value]
                 emitted == Emit(ls, outs, parsedPayload)
             IN  [trace |-> <<"metadata", "emit">>, calls |-> emitted.calls,
                  result |-> IF emitted.r.ok THEN Resolved(parsedPayload)
                             ELSE Rejected(ProcessWebhookCatch(
                                      InnerCatch(emitted.r.error, p)))]

----
\* The transport (BaseApiClient) and the domain errors of the services

\* new PaymentError(message, statusCode, details)
PaymentError(message, statusCode) ==
    MoyasarError("PaymentError", message, "PAYMENT_ERROR", statusCode)

\* new InvoiceError(message, details)
InvoiceError(message) == MoyasarError("InvoiceError", message, "INVOICE_ERROR", 500)

\* the HTTP statuses of the exploration
HttpStatuses == {400, 401, 403, 404, 405, 429, 500, 503, 418}

\* the AxiosError the response interceptor receives: no response at all,
\* or a response with a status whose body may name a type of its own
AxiosErrors ==
    {[hasResponse |-> FALSE, status |-> 0, bodyType |-> Absent]}
    \cup {[hasResponse |-> TRUE, status |-> s, bodyType |-> Absent] : s \in HttpStatuses}
    \cup {[hasResponse |-> TRUE, status |-> 400, bodyType |-> "invalid_request_error"]}

\* a table that gives 404 a type of its own
getDefaultErrorType_NotFoundApart(statusCode) ==
    CASE statusCode = 400 -> "invalid_request_error"
      [] statusCode = 401 -> "authentication_error"
      [] statusCode = 403 -> "account_inactive_error"
      [] statusCode = 404 -> "not_found_error"
      [] statusCode = 405 -> "account_inactive_error"
      [] statusCode = 429 -> "rate_limit_error"
      [] OTHER -> "api_error"

\* BaseApiClient.getDefaultErrorType
getDefaultErrorType(statusCode) ==
    CASE statusCode = 400 -> "invalid_request_error"
      [] statusCode = 401 -> "authentication_error"
      [] statusCode = 403 -> "account_inactive_error"
      [] statusCode = 404 -> "invalid_request_error"
      [] statusCode = 405 -> "account_inactive_error"
      [] statusCode = 429 -> "rate_limit_error"
      [] statusCode \in {500, 503} -> "api_error"
      [] OTHER -> "api_error"

\* BaseApiClient.getDefaultErrorMessage
getDefaultErrorMessage(statusCode) ==
    CASE statusCode = 400 ->
             <<"The request was unacceptable, often due to missing a required parameter">>
      [] statusCode = 401 -> <<"Invalid authorization credentials">>
      [] statusCode = 403 -> <<"Credentials not enough to access resources">>
      [] statusCode = 404 -> <<"The requested resource doesn't exist">>
      [] statusCode = 405 -> <<"Entity not activated to use live account">>
      [] statusCode = 429 -> <<"Too many requests hit the API too quickly">>
      [] statusCode = 500 -> <<"We had a problem with our server. Try again later">>
      [] statusCode = 503 ->
             <<"We are temporarily offline for maintenance. Please try again later">>
      [] OTHER -> <<"HTTP ", ToString(statusCode), ": Request failed">>

\* BaseApiClient.createErrorFromAxiosError (the body carries no message)
createErrorFromAxiosError(error) ==
    IF ~error.hasResponse
    THEN MoyasarError("MoyasarError", <<"Network Error">>, "api_connection_error", 500)
    ELSE MoyasarError("MoyasarError",
                      getDefaultErrorMessage(error.status),
                      IF error.bodyType # Absent THEN error.bodyType
                      ELSE getDefaultErrorType(error.status),
                      error.status)

\* what an ApiClient other than BaseApiClient may reject with
ForeignRejections == {PlainError("Error", <<"Request timeout">>)}

\* enum PaymentStatus
PaymentStatus ==
    {"initiated", "paid", "failed", "authorized", "captured", "refunded",
     "voided", "verified"}

\* enum PaymentSource
PaymentSource == {"creditcard", "applepay", "googlepay", "samsungpay", "stcpay", "token"}

\* the status, the counters and the source of a card payment paid in full; a
\* source is held as its `type`, its other fields at values its variant
\* accepts
PaidInFull ==
    [status |-> "paid", amount |-> 1000, captured |-> 1000, refunded |-> 0,
     source |-> "creditcard"]

\* the Payment bodies a response may carry; the fields not listed are held
\* at values PaymentSchema accepts
PaymentBodies ==
    {JsObject([id |-> "pay_123", metadata |-> JsNull] @@ PaidInFull),
     JsObject([id |-> "pay_123", metadata |-> JsObject(GoodMetadata)] @@ PaidInFull),
     JsObject([id |-> "pay_123", metadata |-> JsObject(BadMetadata)] @@ PaidInFull),
     JsObject([metadata |-> JsNull] @@ PaidInFull),
     JsNull}

\* the bodies of a list response
PaymentListBodies ==
    {JsObject([payments |-> ps, meta |-> "meta"]) :
        ps \in {<<>>} \cup {<<b>> : b \in PaymentBodies}}
    \cup {JsObject([meta |-> "meta"])}

\* the Invoice bodies a response may carry
InvoiceBodies ==
    {JsObject([id |-> "inv_123", metadata |-> JsObject(GoodMetadata)]),
     JsObject([id |-> "inv_123", metadata |-> JsObject(BadMetadata)]),
     JsObject([id |-> "inv_123"]),
     JsNull}

\* the Webhook bodies a response may carry
WebhookBodies == {JsObject([id |-> "wh_123"]), JsNull}

----
\* Request validation and response parsing (PaymentUtils, InvoiceUtils)

\* what a successful safeParse carries, and what a failed one carries
Parsed(data) == [success |-> TRUE, data |-> data, errors |-> <<>>]
Failed(errors) == [success |-> FALSE, data |-> EmptyObject, errors |-> errors]

\* inputs that are no object at all
NullishInputs == {JsNull, JsUndefined}

\* z.object(...).safeParse of null or undefined: one issue with an empty path
IsNullish(input) == input \in NullishInputs

NotAnObject(input) ==
    Failed(<<(<<"Invalid input: expected object, received ", input.kind>>)>>)

\* the Currency enumeration: its values are the upper-case codes
Currency == {"SAR", "KWD", "AED", "USD", "EUR", "GBP", "JPY"}

\* val.toUpperCase() for the currency strings of the exploration
ToUpperCase(val) ==
    CASE val = "sar" -> "SAR"
      [] val = "kwd" -> "KWD"
      [] val = "Eur" -> "EUR"
      [] val = "jpy" -> "JPY"
      [] val = "xyz" -> "XYZ"
      [] OTHER -> val

\* amountSchema without its int check
AmountIssues_NoIntCheck(path, amount) ==
    (IF amount.floor > 0 \/ (amount.floor = 0 /\ amount.tenths > 0) THEN <<>>
     ELSE <<(<<path, ": ", "Too small: expected number to be >0">>)>>)
    \o (IF amount.floor >= 1 THEN <<>>
        ELSE <<(<<path, ": ", "Too small: expected number to be >=1">>)>>)

\* amountSchema = z.number().int().positive().min(1), as the issues of a
\* number under the path `path`, each mapped to `${path}: ${message}`; a
\* number that is not an integer fails the int check and is checked no
\* further
AmountIssues(path, amount) ==
    IF amount.tenths # 0
    THEN <<(<<path, ": ", "Invalid input: expected int, received number">>)>>
    ELSE (IF amount.floor > 0 \/ (amount.floor = 0 /\ amount.tenths > 0) THEN <<>>
          ELSE <<(<<path, ": ", "Too small: expected number to be >0">>)>>)
         \o (IF amount.floor >= 1 THEN <<>>
             ELSE <<(<<path, ": ", "Too small: expected number to be >=1">>)>>)

\* currencySchema = z.enum(Currency).transform(val => val.toUpperCase()):
\* the enumeration is matched first, against the string as given
PaymentCurrencyIssues(currency) ==
    IF currency \in Currency THEN <<>>
    ELSE <<(<<"currency", ": ", "Invalid option">>)>>

\* the currency of CreateInvoiceSchema: z.string(), upper-cased, then
\* refined against the values of Currency
InvoiceCurrencyIssues(currency) ==
    IF ToUpperCase(currency) \in Currency THEN <<>>
    ELSE <<(<<"currency", ": ", "Invalid currency">>)>>

\* CreatePaymentSchema.safeParse, the issues mapped to `${path}: ${message}`;
\* the fields other than amount, currency and metadata are held at values
\* the schema accepts
CreatePaymentSchemaSafeParse(request) ==
    IF IsNullish(request) THEN NotAnObject(request) ELSE
    LET errors == AmountIssues("amount", request["amount"])
                  \o PaymentCurrencyIssues(request["currency"])
    IN  IF errors = <<>>
        THEN Parsed([request EXCEPT !["currency"] = ToUpperCase(@)])
        ELSE Failed(errors)

\* CreateInvoiceSchema.safeParse, likewise
CreateInvoiceSchemaSafeParse(request) ==
    IF IsNullish(request) THEN NotAnObject(request) ELSE
    LET errors == AmountIssues("amount", request["amount"])
                  \o InvoiceCurrencyIssues(request["currency"])
    IN  IF errors = <<>>
        THEN Parsed([request EXCEPT !["currency"] = ToUpperCase(@)])
        ELSE Failed(errors)

\* UpdatePaymentSchema.safeParse: description, when given, is not empty
UpdatePaymentSchemaSafeParse(request) ==
    IF IsNullish(request) THEN NotAnObject(request) ELSE
    IF Has(request, "description") /\ request["description"] = ""
    THEN Failed(<<(<<"description", ": ", "Description is required">>)>>)
    ELSE Parsed(request)

\* RefundPaymentSchema.safeParse and CapturePaymentSchema.safeParse of an
\* object: the amount is optional and every other key is stripped
AmountOnlySchemaSafeParse(request) ==
    LET errors == IF Has(request, "amount")
                  THEN AmountIssues("amount", request["amount"]) ELSE <<>>
    IN  IF errors # <<>> THEN Failed(errors)
        ELSE IF Has(request, "amount") THEN Parsed([amount |-> request["amount"]])
        ELSE Parsed(EmptyObject)

\* the tail shared by validateCreatePaymentRequest and
\* validateUpdatePaymentRequest: the validator runs on the parsed metadata
\* before the result is looked at, and its exception is not caught
WithValidatedMetadata(kind, parsed) ==
    IF parsed.success /\ Has(parsed.data, "metadata")
    THEN LET m == MetadataValidatorParse(kind, parsed.data["metadata"])
         IN  IF m.ok THEN Ok([parsed EXCEPT !.data = [@ EXCEPT !["metadata"] = m.value]])
             ELSE Throw(m.error)
    ELSE Ok(parsed)

\* PaymentUtils.validateCreatePaymentRequest
validateCreatePaymentRequest(kind, request) ==
    WithValidatedMetadata(kind, CreatePaymentSchemaSafeParse(request))

\* PaymentUtils.validateUpdatePaymentRequest
validateUpdatePaymentRequest(kind, request) ==
    WithValidatedMetadata(kind, UpdatePaymentSchemaSafeParse(request))

\* PaymentUtils.validateRefundRequest
validateRefundRequest(request) ==
    Ok(IF IsNullish(request) THEN NotAnObject(request)
       ELSE AmountOnlySchemaSafeParse(request))

\* PaymentUtils.validateCaptureRequest: CapturePaymentSchema is optional, so
\* undefined parses to undefined
validateCaptureRequest(request) ==
    Ok(IF request = JsUndefined THEN Parsed(JsUndefined)
       ELSE IF request = JsNull THEN NotAnObject(request)
       ELSE AmountOnlySchemaSafeParse(request))

\* InvoiceUtils.validateCreateInvoiceRequest
validateCreateInvoiceRequest(request) == Ok(CreateInvoiceSchemaSafeParse(request))

RECURSIVE ArrayIssues(_, _)
\* the issues z.array(CreateInvoiceSchema) reports for the elements from
\* position i on: the issues of each element in turn, under the path
\* ["invoices", index, ...fieldPath] with the index counted from 0; `rest`
\* is `${fieldPath}: ${message}`
ArrayIssues(invoices, i) ==
    IF i > Len(invoices) THEN <<>>
    ELSE [k \in DOMAIN CreateInvoiceSchemaSafeParse(invoices[i]).errors |->
              [index |-> i - 1,
               rest |-> CreateInvoiceSchemaSafeParse(invoices[i]).errors[k]]]
         \o ArrayIssues(invoices, i + 1)

\* the message with the index as zod counts it
FormatBulkIssue_ZeroBased(issue) ==
    <<"Invoice ", ToString(issue.index), ": ">> \o issue.rest

\* `Invoice ${invoiceIndex + 1}: ${fieldPrefix}${err.message}`
FormatBulkIssue(issue) ==
    <<"Invoice ", ToString(issue.index + 1), ": ">> \o issue.rest

\* result.error.issues.map(...) of validateBulkCreateRequest
BulkIssues(invoices) ==
    [k \in DOMAIN ArrayIssues(invoices, 1) |->
         FormatBulkIssue(ArrayIssues(invoices, 1)[k])]

\* InvoiceUtils.validateBulkCreateRequest
validateBulkCreateRequest(request) ==
    IF IsNullish(request) THEN Ok(NotAnObject(request)) ELSE
    LET invoices == request["invoices"]
        errors == IF invoices = <<>>
                  THEN <<(<<"invoices", ": ", "at least one invoice is required">>)>>
                  ELSE BulkIssues(invoices)
    IN  Ok(IF errors = <<>> THEN Parsed(request) ELSE Failed(errors))

\* a union of the response variants that has a variant for `token` too
PaymentSourceResponseSchemaAccepts_WithToken(source) == source \in PaymentSource

\* PaymentSourceResponseSchema: z.discriminatedUnion("type", ...) of the
\* credit card variant, the wallet variant and the stc pay variant
PaymentSourceResponseSchemaAccepts(source) ==
    \/ source = "creditcard"
    \/ source \in {"applepay", "googlepay", "samsungpay"}
    \/ source = "stcpay"

\* PaymentSchema without the lower bound of refunded
PaymentSchemaAccepts_AnyRefunded(obj) ==
    /\ {"id", "status", "amount", "refunded", "captured", "metadata", "source"}
           \subseteq DOMAIN obj
    /\ obj["status"] \in PaymentStatus
    /\ obj["amount"] > 0 /\ obj["amount"] >= 1
    /\ obj["captured"] >= 0
    /\ PaymentSourceResponseSchemaAccepts(obj["source"])

\* PaymentSchema accepts the object: id is there, status is a PaymentStatus,
\* amount is an integer >= 1, refunded and captured are integers >= 0 (the
\* counters of the exploration are integers); each field is checked on its
\* own, and source is one of the variants of the response union
PaymentSchemaAccepts(obj) ==
    /\ {"id", "status", "amount", "refunded", "captured", "metadata", "source"}
           \subseteq DOMAIN obj
    /\ obj["status"] \in PaymentStatus
    /\ obj["amount"] > 0 /\ obj["amount"] >= 1
    /\ obj["refunded"] >= 0
    /\ obj["captured"] >= 0
    /\ PaymentSourceResponseSchemaAccepts(obj["source"])

\* PaymentUtils.parsePayment: PaymentSchema.parse, then the validator on
\* the metadata when it is not null
parsePayment(kind, payment) ==
    IF payment = JsNull \/ ~PaymentSchemaAccepts(payment.obj)
    THEN Throw(PlainError("ZodError", <<"Invalid input">>))
    ELSE IF payment.obj["metadata"] = JsNull
    THEN Ok([payment.obj EXCEPT !["metadata"] = JsUndefined])
    ELSE LET m == MetadataValidatorParse(kind, payment.obj["metadata"].obj)
         IN  IF m.ok THEN Ok([payment.obj EXCEPT !["metadata"] = JsObject(m.value)])
             ELSE Throw(m.error)

\* isPaymentFinal with `paid` left out of the final statuses
isPaymentFinal_PaidNotFinal(status) ==
    status \in {"failed", "refunded", "captured", "voided", "verified"}

\* PaymentUtils.isPaymentFinal
isPaymentFinal(status) ==
    status \in {"paid", "failed", "refunded", "captured", "voided", "verified"}

\* canRefundPayment that looks at the status alone
canRefundPayment_StatusOnly(payment) == payment["status"] \in {"paid", "captured"}

\* PaymentUtils.canRefundPayment
canRefundPayment(payment) ==
    LET statusAllowed == payment["status"] \in {"paid", "captured"}
        hasRefundableAmount == payment["captured"] - payment["refunded"] > 0
        notFullyRefunded == payment["refunded"] < payment["captured"]
    IN  statusAllowed /\ hasRefundableAmount /\ notFullyRefunded

\* canCapturePayment that also asks for nothing to have been captured yet
canCapturePayment_NothingCaptured(payment) ==
    payment["status"] = "authorized" /\ payment["captured"] = 0

\* PaymentUtils.canCapturePayment
canCapturePayment(payment) == payment["status"] = "authorized"

\* PaymentUtils.canVoidPayment
canVoidPayment(payment) == payment["status"] = "authorized"

\* Math.max(a, b)
MathMax(a, b) == IF a >= b THEN a ELSE b

\* getMaxRefundAmount without the floor of 0
getMaxRefundAmount_Difference(payment) == payment["captured"] - payment["refunded"]

\* PaymentUtils.getMaxRefundAmount
getMaxRefundAmount(payment) == MathMax(0, payment["captured"] - payment["refunded"])

RECURSIVE ParseEach(_, _)
\* parsed.payments.map(payment => this.parsePayment(payment))
ParseEach(kind, payments) ==
    IF payments = <<>> THEN Ok(<<>>)
    ELSE LET head == parsePayment(kind, Head(payments))
             rest == ParseEach(kind, Tail(payments))
         IN  IF ~head.ok THEN head
             ELSE IF ~rest.ok THEN rest
             ELSE Ok(<<head.value>> \o rest.value)

\* PaymentUtils.parseListPaymentsResponse
parseListPaymentsResponse(kind, response) ==
    IF response = JsNull \/ ~Has(response.obj, "payments")
    THEN Throw(PlainError("ZodError", <<"Invalid input">>))
    ELSE LET payments == ParseEach(kind, response.obj["payments"])
         IN  IF payments.ok
             THEN Ok([payments |-> payments.value, meta |-> response.obj["meta"]])
             ELSE payments

----
\* PaymentService, InvoiceService and the CRUD half of WebhookService.
\* Every operation is an async function with one await, on
\* apiClient.request: XSync is the part before the await and ends in the
\* request to issue or in the exception thrown; XSettled is the part after.

\* !id
NotGiven(id) == id \in {"", Undefined}

Request(method, url) == [method |-> method, url |-> url]

RECURSIVE JoinWith(_, _)
\* errors.join(sep)
JoinWith(errors, sep) ==
    IF errors = <<>> THEN <<>>
    ELSE IF Len(errors) = 1 THEN errors[1]
    ELSE errors[1] \o <<sep>> \o JoinWith(Tail(errors), sep)

\* PaymentService.handleError
PaymentHandleError(error, message) ==
    IF InstanceOf(error, "PaymentError") THEN error
    ELSE IF InstanceOf(error, "MoyasarError")
    THEN PaymentError(message \o <<": ">> \o error.message, error.statusCode)
    ELSE PaymentError(message \o <<": ">> \o error.message, 500)

\* InvoiceService.handleError
InvoiceHandleError(error, message) ==
    IF InstanceOf(error, "InvoiceError") THEN error
    ELSE IF InstanceOf(error, "MoyasarError")
    THEN InvoiceError(message \o <<": ">> \o error.message)
    ELSE InvoiceError(message \o <<": ">> \o error.message)

\* PaymentService checks that let a request through whatever the
\* validation said
PaymentGuards_ValidationIgnored(idGiven, id, validation, sep, request) ==
    IF idGiven /\ NotGiven(id) THEN Throw(PaymentError(<<"Payment ID is required">>, 400))
    ELSE Ok(request)

\* the checks of a PaymentService operation that precede its try block
PaymentGuards(idGiven, id, validation, sep, request) ==
    IF idGiven /\ NotGiven(id) THEN Throw(PaymentError(<<"Payment ID is required">>, 400))
    ELSE IF ~validation.ok THEN Throw(validation.error)
    ELSE IF ~validation.value.success
    THEN Throw(PaymentError(<<"Validation failed: ">>
                            \o JoinWith(validation.value.errors, sep), 400))
    ELSE Ok(request)

\* a validation that has nothing to check
NoValidation == Ok(Parsed(EmptyObject))

\* PaymentService: create, list, retrieve, update, refund, capture, void
PaymentSync(kind, op, id, body) ==
    CASE op = "create" ->
             PaymentGuards(FALSE, id, validateCreatePaymentRequest(kind, body), ", ",
                           Request("POST", <<"/v1/payments">>))
      [] op = "list" -> Ok(Request("GET", <<"/v1/payments">>))
      [] op = "retrieve" ->
             PaymentGuards(TRUE, id, NoValidation, ", ",
                           Request("GET", <<"/v1/payments", "/", id>>))
      [] op = "update" ->
             PaymentGuards(TRUE, id, validateUpdatePaymentRequest(kind, body), ", ",
                           Request("PUT", <<"/v1/payments", "/", id>>))
      [] op = "refund" ->
             PaymentGuards(TRUE, id, validateRefundRequest(body), ", ",
                           Request("POST", <<"/v1/payments", "/", id, "/refund">>))
      [] op = "capture" ->
             PaymentGuards(TRUE, id, validateCaptureRequest(body), ",",
                           Request("POST", <<"/v1/payments", "/", id, "/capture">>))
      [] op = "void" ->
             PaymentGuards(TRUE, id, NoValidation, ", ",
                           Request("POST", <<"/v1/payments", "/", id, "/void">>))

\* the message each PaymentService operation hands to handleError
PaymentFailureMessage(op, id) ==
    CASE op = "create" -> <<"Failed to create payment">>
      [] op = "list" -> <<"Failed to list payments">>
      [] op = "retrieve" -> <<"Failed to retrieve payment ", id>>
      [] op = "update" -> <<"Failed to update payment ", id>>
      [] op = "refund" -> <<"Failed to refund payment ", id>>
      [] op = "capture" -> <<"Failed to capture payment ", id>>
      [] op = "void" -> <<"Failed to void payment ", id>>

\* the try block of a PaymentService operation from the await on, and its
\* catch: update returns the response as it came, list parses a page, the
\* others parse one payment
PaymentSettled(kind, op, id, outcome) ==
    LET message == PaymentFailureMessage(op, id)
        parsed == IF ~outcome.ok THEN outcome
                  ELSE IF op = "update" THEN outcome
                  ELSE IF op = "list" THEN parseListPaymentsResponse(kind, outcome.value)
                  ELSE parsePayment(kind, outcome.value)
    IN  IF parsed.ok THEN Resolved(parsed.value)
        ELSE Rejected(PaymentHandleError(parsed.error, message))

\* the checks of an InvoiceService operation that precede its try block
InvoiceGuards(idGiven, id, validation, request) ==
    IF idGiven /\ NotGiven(id) THEN Throw(InvoiceError(<<"Invoice ID is required">>))
    ELSE IF ~validation.ok THEN Throw(validation.error)
    ELSE IF ~validation.value.success
    THEN Throw(InvoiceError(<<"Validation failed: ">>
                            \o JoinWith(validation.value.errors, ", ")))
    ELSE Ok(request)

\* InvoiceService: create, createBulk, list, retrieve, update, cancel
InvoiceSync(op, id, body) ==
    CASE op = "create" ->
             InvoiceGuards(FALSE, id, validateCreateInvoiceRequest(body),
                           Request("POST", <<"/v1/invoices">>))
      [] op = "createBulk" ->
             InvoiceGuards(FALSE, id, validateBulkCreateRequest(body),
                           Request("POST", <<"/v1/invoices/bulk">>))
      [] op = "list" -> Ok(Request("GET", <<"/v1/invoices">>))
      [] op = "retrieve" ->
             InvoiceGuards(TRUE, id, NoValidation,
                           Request("GET", <<"/v1/invoices", "/", id>>))
      [] op = "update" ->
             InvoiceGuards(TRUE, id, NoValidation,
                           Request("PUT", <<"/v1/invoices", "/", id>>))
      [] op = "cancel" ->
             InvoiceGuards(TRUE, id, NoValidation,
                           Request("PUT", <<"/v1/invoices", "/", id, "/cancel">>))

\* the message each InvoiceService operation hands to handleError
InvoiceFailureMessage(op, id) ==
    CASE op = "create" -> <<"Failed to create invoice">>
      [] op = "createBulk" -> <<"Failed to create bulk invoices">>
      [] op = "list" -> <<"Failed to list invoices">>
      [] op = "retrieve" -> <<"Failed to retrieve invoice ", id>>
      [] op = "update" -> <<"Failed to update invoice ", id>>
      [] op = "cancel" -> <<"Failed to cancel invoice ", id>>

\* the try block of an InvoiceService operation from the await on, and its
\* catch: the response is returned as it came
InvoiceSettled(op, id, outcome) ==
    IF outcome.ok THEN Resolved(outcome.value)
    ELSE Rejected(InvoiceHandleError(outcome.error, InvoiceFailureMessage(op, id)))

\* WebhookValidation.isValidHttpMethod
isValidHttpMethod(method) == method \in {"post", "put", "patch"}

\* new URL(url).protocol for the urls of the exploration; Absent when the
\* URL constructor throws
UrlProtocol(url) ==
    CASE url = "https://example.com/hook" -> "https:"
      [] url = "http://example.com/hook" -> "http:"
      [] OTHER -> Absent

\* WebhookValidation.isValidUrl
isValidUrl(url) == UrlProtocol(url) = "https:"

\* params.events.filter(event => !isValidWebhookEvent(event))
InvalidEvents(events) == SelectSeq(events, LAMBDA e : ~isValidWebhookEvent(e))

\* the events rule shared by validateCreateRequest and validateUpdateRequest
EventsErrors(params) ==
    IF Has(params, "events") /\ InvalidEvents(params["events"]) # <<>>
    THEN <<(<<"Invalid webhook events: ">>
            \o JoinWith([i \in DOMAIN InvalidEvents(params["events"]) |->
                            <<InvalidEvents(params["events"])[i]>>], ", "))>>
    ELSE <<>>

\* WebhookService.validateCreateRequest: the errors it collects
validateCreateRequest(params) ==
    (IF Get(params, "url") \in {Undefined, ""} THEN <<(<<"url is required">>)>>
     ELSE IF ~isValidUrl(params["url"]) THEN <<(<<"url must be a valid HTTP/HTTPS URL">>)>>
     ELSE <<>>)
    \o (IF Get(params, "http_method") \in {Undefined, ""}
        THEN <<(<<"http_method is required">>)>>
        ELSE IF ~isValidHttpMethod(params["http_method"])
        THEN <<(<<"http_method must be a valid HTTP method">>)>>
        ELSE <<>>)
    \o EventsErrors(params)

\* WebhookService.validateUpdateRequest: the errors it collects
validateUpdateRequest(params) ==
    (IF Get(params, "url") \notin {Undefined, ""} /\ ~isValidUrl(params["url"])
     THEN <<(<<"url must be a valid HTTP/HTTPS URL">>)>>
     ELSE <<>>)
    \o (IF Get(params, "http_method") \notin {Undefined, ""}
           /\ ~isValidHttpMethod(params["http_method"])
        THEN <<(<<"http_method must be a valid HTTP method">>)>>
        ELSE <<>>)
    \o EventsErrors(params)

\* the checks of a WebhookService operation that precede its try block
WebhookGuards(idGiven, id, what, errors, request) ==
    IF idGiven /\ NotGiven(id) THEN Throw(WebhookError(<<what, " ID is required">>))
    ELSE IF errors # <<>>
    THEN Throw(WebhookError(<<"Validation failed: ">> \o JoinWith(errors, ", ")))
    ELSE Ok(request)

\* WebhookService: create, list, retrieve, update, delete, availableEvents,
\* attempts.list, attempts.retrieve
WebhookSync(op, id, body) ==
    CASE op = "create" ->
             WebhookGuards(FALSE, id, "Webhook", validateCreateRequest(body),
                           Request("POST", <<"/v1/webhooks">>))
      [] op = "list" -> Ok(Request("GET", <<"/v1/webhooks">>))
      [] op = "retrieve" ->
             WebhookGuards(TRUE, id, "Webhook", <<>>,
                           Request("GET", <<"/v1/webhooks", "/", id>>))
      [] op = "update" ->
             WebhookGuards(TRUE, id, "Webhook", validateUpdateRequest(body),
                           Request("PUT", <<"/v1/webhooks", "/", id>>))
      [] op = "delete" ->
             WebhookGuards(TRUE, id, "Webhook", <<>>,
                           Request("DELETE", <<"/v1/webhooks", "/", id>>))
      [] op = "availableEvents" ->
             Ok(Request("GET", <<"/v1/webhooks/available_events">>))
      [] op = "attempts.list" -> Ok(Request("GET", <<"/v1/webhooks/attempts">>))
      [] op = "attempts.retrieve" ->
             WebhookGuards(TRUE, id, "Attempt", <<>>,
                           Request("GET", <<"/v1/webhooks/attempts", "/", id>>))

\* the message each WebhookService operation hands to handleError
WebhookFailureMessage(op, id) ==
    CASE op = "create" -> <<"Failed to create webhook">>
      [] op = "list" -> <<"Failed to list webhooks">>
      [] op = "retrieve" -> <<"Failed to retrieve webhook ", id>>
      [] op = "update" -> <<"Failed to update webhook ", id>>
      [] op = "delete" -> <<"Failed to delete webhook ", id>>
      [] op = "availableEvents" -> <<"Failed to fetch available events">>
      [] op = "attempts.list" -> <<"Failed to list webhook attempts">>
      [] op = "attempts.retrieve" -> <<"Failed to retrieve webhook attempt ", id>>

\* the try block of a WebhookService operation from the await on, and its
\* catch: the response is returned as it came, delete returns nothing
WebhookSettled(op, id, outcome) ==
    IF outcome.ok THEN Resolved(IF op = "delete" THEN JsUndefined ELSE outcome.value)
    ELSE Rejected(WebhookHandleError(outcome.error, WebhookFailureMessage(op, id)))

----
\* The state machine

\* the arguments of a service call
NoBody == [none |-> Undefined]

SvcCall(family, op, id, body) == [family |-> family, op |-> op, id |-> id, body |-> body]

NoSvcCall == SvcCall("none", "none", Absent, NoBody)

\* apiClient.request has not settled
NoOutcome == [settled |-> FALSE]

\* the utility function applied and its arguments
UtilCall(fn, args) == [fn |-> fn, args |-> args]

Init ==
    /\ listeners = [e \in WebhookEvents |-> <<>>]
    /\ subscribeCalls = 0
    /\ validatorKind \in ValidatorKinds
    /\ pc = "idle"
    /\ call = NoCall
    /\ payload = EmptyObject
    /\ sigOk = FALSE
    /\ trace = <<>>
    /\ validatorArgs = <<>>
    /\ invoked = <<>>
    /\ atCall = <<>>
    /\ result = NoResult
    /\ svcPc = "idle"
    /\ svcCall = NoSvcCall
    /\ svcRequests = <<>>
    /\ svcOutcome = NoOutcome
    /\ svcResult = NoResult
    /\ utilCall = UtilCall("none", <<>>)
    /\ utilResult = NoResult

runVars == <<pc, call, payload, sigOk, trace, validatorArgs, invoked, atCall, result>>

svcVars == <<svcPc, svcCall, svcRequests, svcOutcome, svcResult>>

utilVars == <<utilCall, utilResult>>

webhookVars == <<listeners, subscribeCalls, runVars>>

\* room left in the scenario for one more subscription
CanSubscribe == subscribeCalls + CallSize(call) < MaxScenarioSize

\* EventEmitter.on, reached through on / onPaymentEvent
AddListener(reg, event, l) == [reg EXCEPT ![event] = Append(@, l)]

RECURSIVE AddUnderAll_PaymentOnly(_, _, _)
\* a fan-out that skips the events that are not payment_ events
AddUnderAll_PaymentOnly(reg, events, l) ==
    IF events = <<>> THEN reg
    ELSE AddUnderAll_PaymentOnly(
             IF Head(events) \in {"balance_transferred", "payout_initiated", "payout_paid",
                                  "payout_failed", "payout_canceled", "payout_returned"}
             THEN reg ELSE AddListener(reg, Head(events), l),
             Tail(events), l)

RECURSIVE AddUnderAll(_, _, _)
\* this.events.forEach(event => this.on(event, listener))
AddUnderAll(reg, events, l) ==
    IF events = <<>> THEN reg
    ELSE AddUnderAll(AddListener(reg, Head(events), l), Tail(events), l)

\* EventEmitter.off: the most recently added registration of l is removed
RemoveListener(reg, event, l) ==
    LET ls == reg[event]
        hit == {i \in DOMAIN ls : ls[i] = l}
    IN  IF hit = {} THEN reg
        ELSE LET k == CHOOSE i \in hit : \A j \in hit : j <= i
             IN  [reg EXCEPT ![event] = SubSeq(ls, 1, k - 1) \o SubSeq(ls, k + 1, Len(ls))]

OnPaymentEvent(event, l) ==
    /\ CanSubscribe
    /\ listeners' = AddListener(listeners, event, l)
    /\ subscribeCalls' = subscribeCalls + 1
    /\ UNCHANGED <<validatorKind, runVars, svcVars, utilVars>>

OnAnyPaymentEvent(l) ==
    /\ CanSubscribe
    /\ listeners' = AddUnderAll(listeners, ALL_WEBHOOK_EVENTS, l)
    /\ subscribeCalls' = subscribeCalls + 1
    /\ UNCHANGED <<validatorKind, runVars, svcVars, utilVars>>

Off(event, l) ==
    /\ \E i \in DOMAIN listeners[event] : listeners[event][i] = l
    /\ listeners' = RemoveListener(listeners, event, l)
    /\ UNCHANGED <<subscribeCalls, validatorKind, runVars, svcVars, utilVars>>

\* the host calls processWebhook: the run executes up to its first await
ProcessWebhookBegin(c) ==
    /\ pc = "idle"
    /\ LET s == ProcessWebhookSync(c)
       IN  /\ pc' = s.pc
           /\ payload' = s.payload
           /\ sigOk' = s.sigOk
           /\ trace' = s.trace
           /\ result' = s.result
           /\ atCall' = IF s.pc = "awaitVerify" /\ Get(s.payload, "type") \in DOMAIN listeners
                        THEN listeners[s.payload["type"]]
                        ELSE <<>>
    /\ call' = c
    /\ UNCHANGED <<listeners, subscribeCalls, validatorKind, validatorArgs, invoked, svcVars, utilVars>>

\* the run resumes after the await and runs to its end
ProcessWebhookResume(outs) ==
    /\ pc = "awaitVerify"
    /\ pc' = "done"
    /\ IF ~sigOk
       THEN /\ result' = Rejected(ProcessWebhookCatch(SignatureFailure))
            /\ UNCHANGED <<trace, validatorArgs, invoked>>
       ELSE LET d == ProcessWebhookDispatch(validatorKind, payload,
                                            listeners[payload["type"]], outs)
            IN  /\ result' = d.result
                /\ trace' = trace \o d.trace
                /\ validatorArgs' = <<ValidatorArgument(payload)>>
                /\ invoked' = d.calls
    /\ atCall' = <<>>
    /\ UNCHANGED <<listeners, subscribeCalls, validatorKind, call, payload, sigOk, svcVars, utilVars>>

\* the host is done with the settled run
Forget ==
    /\ pc = "done"
    /\ pc' = "idle"
    /\ call' = NoCall
    /\ payload' = EmptyObject
    /\ sigOk' = FALSE
    /\ trace' = <<>>
    /\ validatorArgs' = <<>>
    /\ invoked' = <<>>
    /\ atCall' = <<>>
    /\ result' = NoResult
    /\ UNCHANGED <<listeners, subscribeCalls, validatorKind, svcVars, utilVars>>

\* the promise a listener returned settles after the run: emit dropped the
\* promise, so nothing of the run is attached to it
ListenerSettles(i, how) ==
    /\ pc = "done"
    /\ i \in DOMAIN invoked
    /\ invoked[i].outcome = "pending"
    /\ invoked' = [invoked EXCEPT ![i].outcome = how]
    /\ UNCHANGED <<listeners, subscribeCalls, validatorKind, pc, call, payload, sigOk, trace,
                   validatorArgs, atCall, result, svcVars, utilVars>>

Next ==
    \/ \E e \in EventInputs, l \in Listeners : OnPaymentEvent(e, l)
    \/ \E l \in Listeners : OnAnyPaymentEvent(l)
    \/ \E e \in EventInputs, l \in Listeners : Off(e, l)
    \/ \E c \in (IF pc = "idle" THEN CallsBySize[MaxScenarioSize - subscribeCalls] ELSE {}) :
          ProcessWebhookBegin(c)
    \/ \E outs \in [1..(IF sigOk THEN Len(listeners[payload["type"]]) ELSE 0) -> ListenerOutcomes] :
          ProcessWebhookResume(outs)
    \/ \E i \in DOMAIN invoked, how \in {"fulfilled", "rejected"} : ListenerSettles(i, how)
    \/ Forget

Spec == Init /\ [][Next]_vars

----
\* The service operations as a state machine

\* the ids, request bodies and response bodies of the exploration
Ids == {"", Undefined, "id_123"}

CreateRequests ==
    {[amount |-> Num(1000, 0), currency |-> "SAR"],
     [amount |-> Num(1000, 0), currency |-> "SAR", metadata |-> GoodMetadata],
     [amount |-> Num(1000, 0), currency |-> "SAR", metadata |-> BadMetadata],
     [amount |-> Num(0, 0), currency |-> "SAR"],
     [amount |-> Num(0, 0), currency |-> "SAR", metadata |-> BadMetadata]}

UpdatePaymentRequests ==
    {[description |-> "Updated"],
     [description |-> "Updated", metadata |-> GoodMetadata],
     [description |-> "Updated", metadata |-> BadMetadata],
     [description |-> ""],
     [description |-> "", metadata |-> BadMetadata]}

AmountRequests ==
    {[reason |-> "requested"], [amount |-> Num(500, 0)], [amount |-> Num(0, 0)]}

BulkRequests ==
    {[invoices |-> <<>>],
     [invoices |-> <<[amount |-> Num(1000, 0), currency |-> "SAR"]>>],
     [invoices |-> <<[amount |-> Num(1000, 0), currency |-> "SAR"],
                     [amount |-> Num(0, 0), currency |-> "SAR"]>>]}

WebhookCreateRequests ==
    {[url |-> "https://example.com/hook", http_method |-> "post"],
     [url |-> "https://example.com/hook", http_method |-> "post",
      events |-> <<"payment_paid", "bogus_event">>],
     [url |-> "http://example.com/hook", http_method |-> "get"],
     [url |-> "not a url", http_method |-> ""],
     [http_method |-> "put"]}

WebhookUpdateRequests ==
    {[http_method |-> "put"],
     [url |-> "http://example.com/hook"],
     [events |-> <<"bogus_event">>],
     [events |-> <<"payment_paid">>]}

\* the bodies a successful response to the call may carry
ResponseBodies(c) ==
    CASE c.family = "payment" /\ c.op = "list" -> PaymentListBodies
      [] c.family = "payment" /\ c.op # "list" -> PaymentBodies
      [] c.family = "invoice" -> InvoiceBodies
      [] OTHER -> WebhookBodies

\* the ways apiClient.request may settle
TransportOutcomes(c) ==
    {Ok(b) : b \in ResponseBodies(c)}
    \cup {Throw(createErrorFromAxiosError(e)) : e \in AxiosErrors}
    \cup {Throw(e) : e \in ForeignRejections}

\* an operation is called and runs up to its await, or to its exception
SvcBegin(c, sync) ==
    /\ svcPc = "idle"
    /\ svcCall' = c
    /\ svcOutcome' = NoOutcome
    /\ IF sync.ok
       THEN /\ svcPc' = "awaitRequest"
            /\ svcRequests' = <<sync.value>>
            /\ svcResult' = Pending
       ELSE /\ svcPc' = "settled"
            /\ svcRequests' = <<>>
            /\ svcResult' = Rejected(sync.error)
    /\ UNCHANGED <<validatorKind, webhookVars, utilVars>>

\* a PaymentService operation is called
PaymentOp(op, id, body) ==
    SvcBegin(SvcCall("payment", op, id, body), PaymentSync(validatorKind, op, id, body))

\* an InvoiceService operation is called
InvoiceOp(op, id, body) ==
    SvcBegin(SvcCall("invoice", op, id, body), InvoiceSync(op, id, body))

\* a WebhookService CRUD operation is called
WebhookOp(op, id, body) ==
    SvcBegin(SvcCall("webhook", op, id, body), WebhookSync(op, id, body))

\* apiClient.request settles and the operation runs to its end
RequestSettles(outcome) ==
    /\ svcPc = "awaitRequest"
    /\ svcPc' = "settled"
    /\ svcOutcome' = outcome
    /\ svcResult' =
           CASE svcCall.family = "payment" ->
                    PaymentSettled(validatorKind, svcCall.op, svcCall.id, outcome)
             [] svcCall.family = "invoice" ->
                    InvoiceSettled(svcCall.op, svcCall.id, outcome)
             [] OTHER -> WebhookSettled(svcCall.op, svcCall.id, outcome)
    /\ UNCHANGED <<svcCall, svcRequests, validatorKind, webhookVars, utilVars>>

\* the caller is done with the settled operation
SvcForget ==
    /\ svcPc = "settled"
    /\ svcPc' = "idle"
    /\ svcCall' = NoSvcCall
    /\ svcRequests' = <<>>
    /\ svcOutcome' = NoOutcome
    /\ svcResult' = NoResult
    /\ UNCHANGED <<validatorKind, webhookVars, utilVars>>

SvcNext ==
    \/ \E params \in CreateRequests : PaymentOp("create", Absent, params)
    \/ PaymentOp("list", Absent, NoBody)
    \/ \E id \in Ids : PaymentOp("retrieve", id, NoBody)
    \/ \E id \in Ids, update \in UpdatePaymentRequests : PaymentOp("update", id, update)
    \/ \E id \in Ids, refund \in AmountRequests : PaymentOp("refund", id, refund)
    \/ \E id \in Ids, capture \in AmountRequests : PaymentOp("capture", id, capture)
    \/ \E id \in Ids : PaymentOp("void", id, NoBody)
    \/ \E params \in CreateRequests : InvoiceOp("create", Absent, params)
    \/ \E params \in BulkRequests : InvoiceOp("createBulk", Absent, params)
    \/ InvoiceOp("list", Absent, NoBody)
    \/ \E id \in Ids : InvoiceOp("retrieve", id, NoBody)
    \/ \E id \in Ids : InvoiceOp("update", id, NoBody)
    \/ \E id \in Ids : InvoiceOp("cancel", id, NoBody)
    \/ \E params \in WebhookCreateRequests : WebhookOp("create", Absent, params)
    \/ WebhookOp("list", Absent, NoBody)
    \/ \E id \in Ids : WebhookOp("retrieve", id, NoBody)
    \/ \E id \in Ids, params \in WebhookUpdateRequests : WebhookOp("update", id, params)
    \/ \E id \in Ids : WebhookOp("delete", id, NoBody)
    \/ WebhookOp("availableEvents", Absent, NoBody)
    \/ WebhookOp("attempts.list", Absent, NoBody)
    \/ \E id \in Ids : WebhookOp("attempts.retrieve", id, NoBody)
    \/ \E outcome \in TransportOutcomes(svcCall) : RequestSettles(outcome)
    \/ SvcForget

SvcSpec == Init /\ [][SvcNext]_vars

----
\* Properties of the webhook pipeline

InTrace(stage) == \E i \in DOMAIN trace : trace[i] = stage

RunRejected == pc = "done" /\ result.status = "rejected"
RunResolved == pc = "done" /\ result.status = "resolved"

\* the stage a rejected run ended in
RejectedAt(stage) == RunRejected /\ trace # <<>> /\ trace[Len(trace)] = stage

IsPrefix(a, b) == Len(a) <= Len(b) /\ SubSeq(b, 1, Len(a)) = a

Count(seq, x) == Cardinality({i \in DOMAIN seq : seq[i] = x})

\* the step in which a run resolves
ResolvingStep == pc = "awaitVerify" /\ pc' = "done" /\ result'.status = "resolved"

SecretsEqualAndNonEmpty ==
    /\ call.secret_token = Get(payload, "secret_token")
    /\ call.secret_token \notin {"", Undefined}

\* C1 (as claimed): a run that reaches the authentication stage passes it if
\* and only if the expected secret equals payload.secret_token and both are
\* non-empty; an empty or missing expected secret is always rejected.
C1_AcceptsIffSecretsEqualAndNonEmpty ==
    (pc = "done" /\ InTrace("verify")) => (InTrace("metadata") <=> SecretsEqualAndNonEmpty)

\* C2 (as claimed): a run that passed parsing, structural validation,
\* authentication and metadata validation resolves with the payload, also
\* when a listener invoked for it throws.
C2_ListenerFailureDoesNotFailRun ==
    (pc = "done" /\ InTrace("emit")) => result.status = "resolved"

PipelineOrder == <<"parse", "validate", "verify", "metadata", "emit">>

IdMissing == call.raw.doc.kind = "object" /\ Falsy(call.raw.doc.obj, "id")

WrongSecret == InTrace("verify") /\ call.secret_token # Get(payload, "secret_token")

\* C3: the stages run in the order parse, structural validation,
\* authentication, metadata validation, dispatch, and a failing stage ends
\* the run: with a missing id no secret is ever compared, and with a wrong
\* secret_token the run is rejected, the Metadata Validator is not called
\* and no listener is invoked.
C3_StagesInOrderAndFirstFailureEndsRun ==
    /\ IsPrefix(trace, PipelineOrder) \/ IsPrefix(trace, Tail(PipelineOrder))
    /\ call # NoCall /\ IdMissing =>
          /\ ~InTrace("verify")
          /\ RunRejected
          /\ validatorArgs = <<>> /\ invoked = <<>>
    /\ WrongSecret =>
          /\ ~InTrace("metadata")
          /\ validatorArgs = <<>> /\ invoked = <<>>
          /\ pc = "done" => RunRejected
    /\ RunRejected /\ ~InTrace("emit") => invoked = <<>>

C3_WrongSecretWithListenerRegistered ==
    /\ RunRejected /\ WrongSecret
    /\ listeners[payload["type"]] # <<>>

\* what the claim says the validator is called with
ClaimedValidatorArgs(p) ==
    IF Has(p["data"], "metadata") THEN <<p["data"]["metadata"]>> ELSE <<>>

\* what the claim says is emitted and returned
ClaimedParsedPayload(kind, p) ==
    IF Has(p["data"], "metadata") /\ MetadataValidatorParse(kind, p["data"]["metadata"]).ok
    THEN [p EXCEPT !["data"]["metadata"] = MetadataValidatorParse(kind, @).value]
    ELSE p

\* C4 (as claimed): the Metadata Validator is called with exactly
\* data.metadata and only when it is present, and the payload that is
\* returned equals the input payload except that data.metadata holds the
\* validator's output.
C4_ValidatorGetsMetadataAndOnlyMetadataIsReplaced ==
    (pc = "done" /\ InTrace("metadata")) =>
        /\ validatorArgs = ClaimedValidatorArgs(payload)
        /\ result.status = "resolved" =>
               result.value = ClaimedParsedPayload(validatorKind, payload)

ValidatorThrew ==
    /\ pc = "done"
    /\ validatorArgs # <<>>
    /\ ~MetadataValidatorParse(validatorKind, validatorArgs[1]).ok

\* C5: when the Metadata Validator throws, the run is rejected with a
\* WebhookValidationError whose unexpected_payload is the payload as it was
\* received, no field of it replaced.
C5_ValidatorFailureCarriesOriginalPayload ==
    ValidatorThrew =>
        /\ result.status = "rejected"
        /\ result.error.class = "WebhookValidationError"
        /\ InstanceOf(result.error, "WebhookError")
        /\ result.error.unexpected_payload = call.raw.doc

C5_ValidatorThrewOnBadMetadata ==
    /\ ValidatorThrew
    /\ payload["data"] = DataOf("bad")
    /\ call.raw.form = "string"

\* C6: when a run resolves, the listeners registered for payload.type, and
\* no others, have been invoked, once per registration and in registration
\* order, each with the payload the run resolves with.
C6_ListenersInvokedInRegistrationOrder ==
    [][ResolvingStep =>
          LET ls == listeners[payload["type"]]
          IN  /\ Len(invoked') = Len(ls)
              /\ \A i \in DOMAIN ls :
                    /\ invoked'[i].listener = ls[i]
                    /\ invoked'[i].arg = result'.value]_vars

C6_TwoListenersInvoked ==
    /\ RunResolved
    /\ Len(invoked) = 2
    /\ invoked[1].listener # invoked[2].listener
    /\ invoked[1].listener = listeners[payload["type"]][1]

\* C7: onAnyPaymentEvent(l) appends l once to the list of every known event
\* name; removing l from one event name leaves the lists of all the others
\* as they are; and a run that resolves has invoked l as many times as l is
\* registered under payload.type.
C7_OnAnyRegistersUnderEveryEventName ==
    [][/\ \A l \in Listeners :
             OnAnyPaymentEvent(l) =>
                 \A e \in WebhookEvents : listeners'[e] = Append(listeners[e], l)
       /\ \A e \in EventInputs, l \in Listeners :
             Off(e, l) =>
                 /\ Count(listeners'[e], l) = Count(listeners[e], l) - 1
                 /\ \A e2 \in WebhookEvents \ {e} : listeners'[e2] = listeners[e2]
       /\ ResolvingStep =>
             \A l \in Listeners :
                 Count([i \in DOMAIN invoked' |-> invoked'[i].listener], l)
                     = Count(listeners[payload["type"]], l)]_vars

\* l1 was registered by onAnyPaymentEvent and then removed from payment_paid
\* alone: a payment_failed payload still reaches it, exactly once
C7_InvokedOnceAfterRemovalElsewhere ==
    /\ RunResolved
    /\ payload["type"] = "payment_failed"
    /\ listeners["payment_paid"] = <<>>
    /\ \A e \in WebhookEvents \ {"payment_paid"} : listeners[e] = <<"l1">>
    /\ Len(invoked) = 1 /\ invoked[1].listener = "l1"

----
\* Properties of the service operations

\* the domain error class of a resource family
DomainErrorOf(family) ==
    CASE family = "payment" -> "PaymentError"
      [] family = "invoice" -> "InvoiceError"
      [] OTHER -> "WebhookError"

\* the message prefix of the operation in flight
FailureMessageOf(c) ==
    CASE c.family = "payment" -> PaymentFailureMessage(c.op, c.id)
      [] c.family = "invoice" -> InvoiceFailureMessage(c.op, c.id)
      [] OTHER -> WebhookFailureMessage(c.op, c.id)

SvcRejected == svcPc = "settled" /\ svcResult.status = "rejected"

\* apiClient.request rejected with a MoyasarError
TransportRaisedMoyasarError ==
    /\ svcPc = "settled"
    /\ svcOutcome # NoOutcome
    /\ ~svcOutcome.ok
    /\ InstanceOf(svcOutcome.error, "MoyasarError")

\* C8: every rejection of a PaymentService, InvoiceService or WebhookService
\* operation, processWebhook included, is an instance of the domain error of
\* its family (PaymentError, InvoiceError, WebhookError), whatever failed:
\* request validation, the Metadata Validator, the transport or the parsing
\* of the response.
C8_RejectionsAreDomainErrors ==
    /\ SvcRejected => InstanceOf(svcResult.error, DomainErrorOf(svcCall.family))
    /\ RunRejected => InstanceOf(result.error, "WebhookError")

\* C9: when the transport rejects with a MoyasarError, the operation rejects
\* with the domain error of its family whose message starts with the
\* operation's prefix and whose type and statusCode are those of the
\* transport's error.
C9_DomainErrorKeepsTypeAndStatusCode ==
    TransportRaisedMoyasarError =>
        /\ SvcRejected
        /\ InstanceOf(svcResult.error, DomainErrorOf(svcCall.family))
        /\ IsPrefix(FailureMessageOf(svcCall), svcResult.error.message)
        /\ svcResult.error.type = svcOutcome.error.type
        /\ svcResult.error.statusCode = svcOutcome.error.statusCode

----
\* Properties of the error classes of the pipeline

\* the class each of the three stages raises its failure as
ClassRaisedAt(stage) ==
    CASE stage = "validate" -> StructuralCheck(EmptyObject).error.class
      [] stage = "verify" -> SignatureFailure.class
      [] stage = "metadata" ->
             InnerCatch(PlainError("ZodError", <<"Invalid input">>), EmptyObject).class

\* C10 (as claimed): a structural failure, an authentication failure and a
\* metadata failure are each raised as their own error class: no two of the
\* three stages share a class.
C10_ThreeDistinctErrorClasses ==
    \A stage \in {"validate", "verify", "metadata"} :
        RejectedAt(stage) =>
            \A other \in {"validate", "verify", "metadata"} \ {stage} :
                result.error.class # ClassRaisedAt(other)

\* C10 (amended): an authentication failure is raised as WebhookError
\* itself, a class no structural or metadata failure is raised as;
\* structural and metadata failures are both raised as
\* WebhookValidationError.
C10_AuthenticationClassDistinctFromValidationClass ==
    /\ RejectedAt("verify") =>
          /\ result.error.class = "WebhookError"
          /\ result.error.class # ClassRaisedAt("validate")
          /\ result.error.class # ClassRaisedAt("metadata")
    /\ RejectedAt("validate") => result.error.class = "WebhookValidationError"
    /\ RejectedAt("metadata") => result.error.class = "WebhookValidationError"

C10_RejectedAtAuthentication ==
    /\ RejectedAt("verify")
    /\ call.secret_token = "correct_secret"

----
\* Properties of the entities the services return

SvcResolved == svcPc = "settled" /\ svcResult.status = "resolved"

\* the metadata objects a raw response body carries: none for null, for a
\* body without metadata and for metadata null
RawMetadata(body) ==
    IF body = JsNull \/ ~Has(body.obj, "metadata") \/ body.obj["metadata"] = JsNull
    THEN {}
    ELSE {body.obj["metadata"].obj}

\* the metadata objects of a parsed payment
ParsedMetadata(payment) ==
    IF payment["metadata"] = JsUndefined THEN {} ELSE {payment["metadata"].obj}

\* the metadata objects of the Payments and Invoices a resolved operation
\* returned, read off the value in the shape the operation returns it
ReturnedMetadata(c, value) ==
    CASE c.family = "payment" /\ c.op = "list" ->
             UNION {ParsedMetadata(value.payments[i]) : i \in DOMAIN value.payments}
      [] c.family = "payment" /\ c.op = "update" -> RawMetadata(value)
      [] c.family = "payment" /\ c.op \notin {"list", "update"} -> ParsedMetadata(value)
      [] c.family = "invoice" -> RawMetadata(value)
      [] OTHER -> {}

\* m is what the injected validator returns for some metadata it accepts
ValidatorOutput(kind, m) ==
    \E x \in {GoodMetadata, BadMetadata} :
        MetadataValidatorParse(kind, x).ok /\ MetadataValidatorParse(kind, x).value = m

\* C11: every Payment or Invoice a service operation (create, retrieve, list,
\* update, refund, capture, void, cancel) returns has had its metadata, when
\* present, passed through the injected Metadata Validator: the metadata it
\* carries is an output of the validator.
C11_ReturnedMetadataIsValidated ==
    SvcResolved =>
        \A m \in ReturnedMetadata(svcCall, svcResult.value) :
            ValidatorOutput(validatorKind, m)

----
\* Amount formatting and parsing (PaymentUtils and InvoiceUtils hold the
\* same code)

\* divisors[currency] ?? 100, and divisors[currency.toUpperCase()] || 100
Divisor(currency) ==
    CASE currency = "KWD" -> 1000
      [] currency = "JPY" -> 1
      [] currency \in {"SAR", "USD", "EUR"} -> 100
      [] OTHER -> 100

RECURSIVE Pow10(_)
Pow10(n) == IF n = 0 THEN 1 ELSE 10 * Pow10(n - 1)

\* (num / den).toFixed(digits) for num >= 0, as the integer n the text
\* spells out with `digits` decimals (n / 10^digits). The nearest n is
\* taken; where the decimal value lies half way between two, the binary
\* value of the quotient decides, so either neighbour is possible
ToFixed(num, den, digits) ==
    LET scaled == num * Pow10(digits)
        q == scaled \div den
        r == scaled % den
    IN  IF 2 * r < den THEN {q}
        ELSE IF 2 * r > den THEN {q + 1}
        ELSE {q, q + 1}

\* formatAmount that spells KWD amounts with three decimals
formatAmount_ThreeDecimalsForKWD(amount, currency) ==
    LET divisor == Divisor(currency)
        digits == IF divisor = 1 THEN 0 ELSE IF divisor = 1000 THEN 3 ELSE 2
    IN  {[scaled |-> n, digits |-> digits, currency |-> currency] :
             n \in ToFixed(amount, divisor, digits)}

\* formatAmount(amount, currency): the texts it can return, each
\* `${scaled / 10^digits} ${currency}` with the number spelt with `digits`
\* decimals
formatAmount(amount, currency) ==
    LET divisor == Divisor(currency)
        digits == IF divisor = 1 THEN 0 ELSE 2
    IN  {[scaled |-> n, digits |-> digits, currency |-> currency] :
             n \in ToFixed(amount, divisor, digits)}

\* Math.round(num / den) for num >= 0: halves go up
MathRound(num, den) == (2 * num + den) \div (2 * den)

\* parseAmount(formattedAmount, currency): the text loses everything but
\* digits and the dot, parseFloat reads the number, and the product with
\* the divisor is rounded
parseAmount(formattedAmount, currency) ==
    MathRound(formattedAmount.scaled * Divisor(ToUpperCase(currency)),
              Pow10(formattedAmount.digits))

----
\* The utility functions of PaymentUtils and InvoiceUtils, each applied to
\* arguments drawn from the sets below

\* the largest whole part of the amounts of the exploration
MaxAmount == 3

\* amounts a caller may pass: negative, zero, positive, whole and fractional
UtilAmounts == {Num(f, t) : f \in -1..MaxAmount, t \in {0, 5}}

\* the requests the create validators are applied to: every amount with
\* currency codes in upper case, in lower and mixed case, and unknown ones
UtilCreateRequests ==
    {[amount |-> a, currency |-> c] :
         a \in UtilAmounts,
         c \in Currency \cup {"sar", "kwd", "Eur", "jpy", "xyz", "XYZ", ""}}
    \cup {[amount |-> Num(1, 0), currency |-> "SAR", metadata |-> m] :
              m \in {GoodMetadata, BadMetadata}}
    \cup NullishInputs

UtilAmountRequests ==
    {[amount |-> a] : a \in UtilAmounts}
    \cup {EmptyObject, [reason |-> "requested"]}
    \cup NullishInputs

\* what an application of a utility function leaves alone
nonUtilVars == <<validatorKind, webhookVars, svcVars>>

\* no application of a utility function is being looked at
UtilIdle == utilCall.fn = "none"

ValidateCreatePaymentRequest ==
    /\ UtilIdle
    /\ \E request \in UtilCreateRequests :
        /\ utilCall' = UtilCall("validateCreatePaymentRequest", <<request>>)
        /\ utilResult' = validateCreatePaymentRequest(validatorKind, request)
        /\ UNCHANGED nonUtilVars

ValidateUpdatePaymentRequest ==
    /\ UtilIdle
    /\ \E request \in UpdatePaymentRequests \cup NullishInputs :
        /\ utilCall' = UtilCall("validateUpdatePaymentRequest", <<request>>)
        /\ utilResult' = validateUpdatePaymentRequest(validatorKind, request)
        /\ UNCHANGED nonUtilVars

ValidateRefundRequest ==
    /\ UtilIdle
    /\ \E request \in UtilAmountRequests :
        /\ utilCall' = UtilCall("validateRefundRequest", <<request>>)
        /\ utilResult' = validateRefundRequest(request)
        /\ UNCHANGED nonUtilVars

ValidateCaptureRequest ==
    /\ UtilIdle
    /\ \E request \in UtilAmountRequests :
        /\ utilCall' = UtilCall("validateCaptureRequest", <<request>>)
        /\ utilResult' = validateCaptureRequest(request)
        /\ UNCHANGED nonUtilVars

ValidateCreateInvoiceRequest ==
    /\ UtilIdle
    /\ \E request \in UtilCreateRequests :
        /\ utilCall' = UtilCall("validateCreateInvoiceRequest", <<request>>)
        /\ utilResult' = validateCreateInvoiceRequest(request)
        /\ UNCHANGED nonUtilVars

\* the longest `invoices` array of the exploration
MaxBulk == 2

\* the bulk requests of the exploration; the elements of their `invoices`
\* arrays are ones the schema accepts and ones it rejects for the amount,
\* for the currency, and for both
UtilBulkRequests ==
    LET UtilInvoices == {[amount |-> Num(1, 0), currency |-> "SAR"],
                         [amount |-> Num(2, 0), currency |-> "kwd"],
                         [amount |-> Num(0, 0), currency |-> "SAR"],
                         [amount |-> Num(1, 5), currency |-> "SAR"],
                         [amount |-> Num(1, 0), currency |-> "XYZ"],
                         [amount |-> Num(0, 0), currency |-> "XYZ"]}
    IN  {[invoices |-> invoices] :
             invoices \in UNION {[1..n -> UtilInvoices] : n \in 0..MaxBulk}}
        \cup NullishInputs

ValidateBulkCreateRequest ==
    /\ UtilIdle
    /\ \E request \in UtilBulkRequests :
        /\ utilCall' = UtilCall("validateBulkCreateRequest", <<request>>)
        /\ utilResult' = validateBulkCreateRequest(request)
        /\ UNCHANGED nonUtilVars

\* the largest of the consecutive amounts formatted
MaxFormatAmount == 12

\* formatAmount is applied to the smallest amounts and to some of three
\* and four digits, with the supported codes, a code in lower case and a
\* code that is not supported
FormatAmount ==
    /\ UtilIdle
    /\ \E amount \in 1..MaxFormatAmount \cup {100, 999, 1000, 1005, 1234, 5000},
       currency \in Currency \cup {"kwd", "XYZ"} :
        \E formatted \in formatAmount(amount, currency) :
            /\ utilCall' = UtilCall("formatAmount", <<amount, currency>>)
            /\ utilResult' = Ok(formatted)
            /\ UNCHANGED nonUtilVars

\* the text formatAmount returned is parsed back
ParseAmount ==
    /\ utilCall.fn = "formatAmount"
    /\ \E currency \in {utilCall.args[2], "kwd", "SAR"} :
           /\ utilCall' = UtilCall("parseAmount", <<utilResult.value, currency>>)
           /\ utilResult' = Ok(parseAmount(utilResult.value, currency))
    /\ UNCHANGED nonUtilVars

\* the largest of the consecutive counter values
MaxCounter == 2

\* parsePayment is applied to a body of any status and counters, to a body
\* of any source, or to one of the bodies a response may carry
ParsePayment ==
    /\ UtilIdle
    /\ \E payment \in
           {JsObject([id |-> "pay_123", metadata |-> JsNull, status |-> st,
                      amount |-> a, captured |-> c, refunded |-> r,
                      source |-> "creditcard"]) :
                st \in {"paid", "authorized", "unheard_of"},
                a \in 0..MaxCounter, c \in -1..MaxCounter, r \in -1..MaxCounter}
           \cup {JsObject([[id |-> "pay_123", metadata |-> JsNull] @@ PaidInFull
                               EXCEPT !["source"] = src]) :
                     src \in PaymentSource \cup {"unheard_of"}}
           \cup {JsObject([id |-> "pay_123", metadata |-> JsNull, status |-> "paid",
                           amount |-> 1000, captured |-> 1000, refunded |-> 0])}
           \cup PaymentBodies :
        /\ utilCall' = UtilCall("parsePayment", <<payment>>)
        /\ utilResult' = parsePayment(validatorKind, payment)
        /\ UNCHANGED nonUtilVars

\* the Payment objects the predicates are applied to
UtilPayments ==
    {[id |-> "pay_123", metadata |-> JsUndefined, status |-> st,
      amount |-> 6000, captured |-> c, refunded |-> r] :
         st \in PaymentStatus,
         c \in 0..MaxCounter \cup {1000, 5000, 6000},
         r \in 0..MaxCounter \cup {1000, 5000, 6000}}

CanRefundPayment ==
    /\ UtilIdle
    /\ \E payment \in UtilPayments :
        /\ utilCall' = UtilCall("canRefundPayment", <<payment>>)
        /\ utilResult' = Ok(canRefundPayment(payment))
        /\ UNCHANGED nonUtilVars

GetMaxRefundAmount ==
    /\ UtilIdle
    /\ \E payment \in UtilPayments :
        /\ utilCall' = UtilCall("getMaxRefundAmount", <<payment>>)
        /\ utilResult' = Ok(getMaxRefundAmount(payment))
        /\ UNCHANGED nonUtilVars

CanCapturePayment ==
    /\ UtilIdle
    /\ \E payment \in UtilPayments :
        /\ utilCall' = UtilCall("canCapturePayment", <<payment>>)
        /\ utilResult' = Ok(canCapturePayment(payment))
        /\ UNCHANGED nonUtilVars

CanVoidPayment ==
    /\ UtilIdle
    /\ \E payment \in UtilPayments :
        /\ utilCall' = UtilCall("canVoidPayment", <<payment>>)
        /\ utilResult' = Ok(canVoidPayment(payment))
        /\ UNCHANGED nonUtilVars

IsPaymentFinal ==
    /\ UtilIdle
    /\ \E status \in PaymentStatus :
        /\ utilCall' = UtilCall("isPaymentFinal", <<status>>)
        /\ utilResult' = Ok(isPaymentFinal(status))
        /\ UNCHANGED nonUtilVars

\* the caller is done with the result
UtilForget ==
    /\ ~UtilIdle
    /\ utilCall' = UtilCall("none", <<>>)
    /\ utilResult' = NoResult
    /\ UNCHANGED nonUtilVars

UtilNext ==
    \/ UtilForget
    \/ CanCapturePayment
    \/ CanVoidPayment
    \/ ParsePayment
    \/ CanRefundPayment
    \/ GetMaxRefundAmount
    \/ IsPaymentFinal
    \/ FormatAmount
    \/ ParseAmount
    \/ ValidateCreatePaymentRequest
    \/ ValidateUpdatePaymentRequest
    \/ ValidateRefundRequest
    \/ ValidateCaptureRequest
    \/ ValidateCreateInvoiceRequest
    \/ ValidateBulkCreateRequest

UtilSpec == Init /\ [][UtilNext]_vars

----
\* Properties of the utility functions

RequestValidators ==
    {"validateCreatePaymentRequest", "validateUpdatePaymentRequest",
     "validateRefundRequest", "validateCaptureRequest",
     "validateCreateInvoiceRequest", "validateBulkCreateRequest"}

\* C13: round-trip law: for every integer amount a >= 1 in minor units and
\* every supported currency c, KWD and JPY included, parsing with c the
\* text formatAmount(a, c) returned gives a back.
C13_ParseOfFormatIsIdentity ==
    [][(/\ utilCall.fn = "formatAmount"
        /\ utilCall'.fn = "parseAmount"
        /\ utilCall'.args[2] = utilCall.args[2])
       => utilResult'.value = utilCall.args[1]]_vars

\* parsePayment returned the payment utilResult.value
ParsePaymentReturned == utilCall.fn = "parsePayment" /\ utilResult.ok

CurrencyValidated ==
    /\ utilCall.fn \in {"validateCreatePaymentRequest", "validateCreateInvoiceRequest"}
    /\ ~IsNullish(utilCall.args[1])
    /\ DOMAIN utilCall.args[1] = {"amount", "currency"}
    /\ AmountIssues("amount", utilCall.args[1]["amount"]) = <<>>

\* C15: currency validation is case-insensitive for every request validator
\* that takes a currency, payment creation and invoice creation alike: a
\* currency string is accepted if and only if its upper-case form is in the
\* supported set, and on success the validated data holds the upper-case
\* form.
C15_CurrencyIsCaseInsensitive ==
    CurrencyValidated =>
        LET currency == utilCall.args[1]["currency"]
        IN  /\ utilResult.ok
            /\ utilResult.value.success <=> (ToUpperCase(currency) \in Currency)
            /\ utilResult.value.success =>
                   utilResult.value.data["currency"] = ToUpperCase(currency)

\* a validator that takes an amount was applied to a request that carries
\* one, every other field being one the schema accepts
AmountValidated ==
    /\ utilCall.fn \in {"validateCreatePaymentRequest", "validateRefundRequest",
                       "validateCaptureRequest", "validateCreateInvoiceRequest"}
    /\ ~IsNullish(utilCall.args[1])
    /\ Has(utilCall.args[1], "amount")
    /\ Has(utilCall.args[1], "currency") =>
           /\ utilCall.args[1]["currency"] \in Currency
           /\ ~Has(utilCall.args[1], "metadata")

RECURSIVE PrefixedElementErrors(_, _)
\* for each element from position k on, the errors
\* validateCreateInvoiceRequest yields for it, each prefixed "Invoice k: "
PrefixedElementErrors(invoices, k) ==
    IF k > Len(invoices) THEN <<>>
    ELSE LET errors == validateCreateInvoiceRequest(invoices[k]).value.errors
         IN  [n \in DOMAIN errors |-> <<"Invoice ", ToString(k), ": ">> \o errors[n]]
             \o PrefixedElementErrors(invoices, k + 1)

\* validateBulkCreateRequest was applied to a request with invoices in it
BulkValidated ==
    /\ utilCall.fn = "validateBulkCreateRequest"
    /\ ~IsNullish(utilCall.args[1])
    /\ utilCall.args[1]["invoices"] # <<>>

C19_MaxRefundIsRemainderOrZero ==
    utilCall.fn = "getMaxRefundAmount" =>
        LET remainder == utilCall.args[1]["captured"] - utilCall.args[1]["refunded"]
        IN  /\ utilResult.value >= 0
            /\ utilResult.value >= remainder
            /\ utilResult.value \in {0, remainder}

\* getMaxRefundAmount returned 0 for a payment refunded beyond its capture
C19_ZeroWhenRefundedExceedsCaptured ==
    /\ utilCall.fn = "getMaxRefundAmount"
    /\ utilCall.args[1]["refunded"] > utilCall.args[1]["captured"]
    /\ utilResult.value = 0

\* C20: isPaymentFinal(status) is true for exactly the six statuses paid,
\* failed, refunded, captured, voided, verified, and false for every other
\* defined status (initiated, authorized).
C20_FinalStatusesAreExactlySix ==
    utilCall.fn = "isPaymentFinal" =>
        /\ utilCall.args[1] \in PaymentStatus
        /\ utilResult.value <=> utilCall.args[1] \notin {"initiated", "authorized"}
        /\ Cardinality({st \in PaymentStatus : isPaymentFinal(st)}) = 6

\* isPaymentFinal said yes for paid
C20_PaidIsFinal ==
    /\ utilCall.fn = "isPaymentFinal"
    /\ utilCall.args[1] = "paid"
    /\ utilResult.value = TRUE

\* C21: for every payment p, canCapturePayment(p) and canVoidPayment(p)
\* agree, and both are true exactly when p.status is authorized, whatever
\* the other fields of p are.
C21_CaptureAndVoidAgreeOnAuthorized ==
    utilCall.fn \in {"canCapturePayment", "canVoidPayment"} =>
        LET p == utilCall.args[1]
        IN  /\ utilResult.value <=> p["status"] = "authorized"
            /\ canCapturePayment(p) <=> canVoidPayment(p)
            /\ \A q \in UtilPayments :
                   q["status"] = p["status"] =>
                       /\ canCapturePayment(q) = utilResult.value
                       /\ canVoidPayment(q) = utilResult.value

\* canCapturePayment said yes for an authorized payment part of which is
\* captured already
C21_AuthorizedWithCaptureIsCapturable ==
    /\ utilCall.fn = "canCapturePayment"
    /\ utilCall.args[1]["status"] = "authorized"
    /\ utilCall.args[1]["captured"] > 0
    /\ utilResult.value = TRUE

\* C22: formatAmount(a, c) renders a divided by the divisor of c (KWD 1000,
\* JPY 1, every other code 100, unknown codes included, without error),
\* with 0 decimals when the divisor is 1 and 2 decimals otherwise, followed
\* by a space and the code c; 5000 SAR gives "50.00 SAR" and 1000 JPY gives
\* "1000 JPY".
C22_FormatDividesAndKeepsTwoDecimals ==
    utilCall.fn = "formatAmount" =>
        LET a == utilCall.args[1]
            c == utilCall.args[2]
            divisor == IF c = "KWD" THEN 1000 ELSE IF c = "JPY" THEN 1 ELSE 100
            text == utilResult.value
            unit == IF text.digits = 0 THEN 1 ELSE 100
            \* twice the distance between the number spelt and a / divisor,
            \* in units of 1 / (unit * divisor)
            twiceOff == IF text.scaled * divisor >= a * unit
                        THEN 2 * (text.scaled * divisor - a * unit)
                        ELSE 2 * (a * unit - text.scaled * divisor)
        IN  /\ utilResult.ok
            /\ text.currency = c
            /\ text.digits = IF divisor = 1 THEN 0 ELSE 2
            /\ twiceOff <= divisor
            /\ (a = 5000 /\ c = "SAR") => (text.scaled = 5000 /\ text.digits = 2)
            /\ (a = 1000 /\ c = "JPY") => (text.scaled = 1000 /\ text.digits = 0)

\* formatAmount rendered an amount in a code outside the divisor table
\* with two decimals
C22_UnknownCodeFormattedByHundred ==
    /\ utilCall.fn = "formatAmount"
    /\ utilCall.args = <<1234, "XYZ">>
    /\ utilResult.ok
    /\ utilResult.value = [scaled |-> 1234, digits |-> 2, currency |-> "XYZ"]

\* C27: for every currency string c passed to both functions, codes not in
\* upper case and codes outside the divisor table included, parseAmount
\* multiplies by the divisor that formatAmount divides by: what it returns
\* for a text and c is the number the text spells times the divisor
\* formatAmount takes for c, rounded.
C27_ParseMultipliesByDivisorOfFormat ==
    utilCall.fn = "parseAmount" =>
        LET text == utilCall.args[1]
            c == utilCall.args[2]
        IN  utilResult.value = MathRound(text.scaled * Divisor(c), Pow10(text.digits))

\* C12: a request validator returns a {success, data?, errors} result for
\* every input and never throws, also for null or undefined input and when
\* the injected Metadata Validator rejects the request's metadata.
C12_RequestValidatorsNeverThrow ==
    utilCall.fn \in RequestValidators => utilResult.ok

----
\* Properties of what precedes a rejection

\* the operation takes an id and the id given is empty
EmptyRequiredId(c) ==
    /\ \/ c.family = "payment" /\ c.op \in {"update", "refund", "capture", "retrieve", "void"}
       \/ c.family = "invoice" /\ c.op \in {"retrieve", "cancel"}
       \/ c.family = "webhook" /\ c.op \in {"update", "retrieve", "delete"}
    /\ c.id \in {"", Undefined}

\* the validator of the operation does not accept the request given
RequestValidationFails(kind, c) ==
    LET rejects(validation) == ~validation.ok \/ ~validation.value.success
    IN  CASE c.family = "payment" /\ c.op = "create" ->
                 rejects(validateCreatePaymentRequest(kind, c.body))
          [] c.family = "payment" /\ c.op = "update" ->
                 rejects(validateUpdatePaymentRequest(kind, c.body))
          [] c.family = "payment" /\ c.op = "refund" -> rejects(validateRefundRequest(c.body))
          [] c.family = "payment" /\ c.op = "capture" -> rejects(validateCaptureRequest(c.body))
          [] c.family = "invoice" /\ c.op = "create" ->
                 rejects(validateCreateInvoiceRequest(c.body))
          [] c.family = "invoice" /\ c.op = "createBulk" ->
                 rejects(validateBulkCreateRequest(c.body))
          [] c.family = "webhook" /\ c.op = "create" -> validateCreateRequest(c.body) # <<>>
          [] c.family = "webhook" /\ c.op = "update" -> validateUpdateRequest(c.body) # <<>>
          [] OTHER -> FALSE

\* C23: request validation precedes side effects: when request validation
\* fails, or a required id argument is empty, a service operation rejects
\* without issuing any transport request.
C23_InvalidRequestIsRejectedBeforeTransport ==
    (/\ svcPc # "idle"
     /\ EmptyRequiredId(svcCall) \/ RequestValidationFails(validatorKind, svcCall))
    => /\ SvcRejected
       /\ svcRequests = <<>>
       /\ svcOutcome = NoOutcome

\* createBulk with no invoice in it was rejected and nothing was sent
C23_EmptyBulkRejectedWithoutRequest ==
    /\ svcCall.family = "invoice"
    /\ svcCall.op = "createBulk"
    /\ RequestValidationFails(validatorKind, svcCall)
    /\ SvcRejected
    /\ svcRequests = <<>>

\* the structural rules the payload p violates, each as the message that
\* names it
ViolatedRules(p) ==
    {<<f, " is required">> : f \in {g \in {"id", "type", "created_at", "account_name", "data"} :
                                        ~Has(p, g)}}
    \cup (IF Has(p, "type") /\ p["type"] \notin WebhookEvents \cup {"", Undefined}
          THEN {<<"Invalid webhook event type: ", p["type"]>>} ELSE {})
    \cup (IF Get(p, "live") \notin {"true", "false"}
          THEN {<<"live field must be a boolean">>} ELSE {})

\* the message holds the fragments of `rule`, one after the other
Mentions(message, rule) ==
    \E i \in 1..(Len(message) - Len(rule) + 1) :
        SubSeq(message, i, i + Len(rule) - 1) = rule

\* C24: a payload that violates one or more structural rules (a required
\* field is missing, type is not a known WebhookEvent, live is not a
\* boolean) is rejected with a structural webhook error whose message lists
\* every violated rule, whichever input form carried the payload.
C24_StructuralRejectionListsEveryRule ==
    (/\ call # NoCall
     /\ call.raw.doc.kind = "object"
     /\ ViolatedRules(call.raw.doc.obj) # {})
    => /\ RunRejected
       /\ result.error.class = "WebhookValidationError"
       /\ \A rule \in ViolatedRules(call.raw.doc.obj) :
              Mentions(result.error.message, rule)

----
\* Properties of a run and the listeners registered while it is pending

\* the listeners the run invoked, in the order of their invocation
InvokedListeners == [i \in DOMAIN invoked |-> invoked[i].listener]

\* C25: on, onAnyPaymentEvent and off calls made after processWebhook was
\* called and before it settles do not change which listeners the run
\* invokes: a run that dispatched invoked the listeners that were registered
\* for payload.type when processWebhook was called (up to the first one that
\* threw).
C25_InvokedWereRegisteredAtCall ==
    [][(pc = "awaitVerify" /\ pc' = "done" /\ InTrace("emit")')
       => IsPrefix(InvokedListeners', atCall)]_vars

\* C26: processWebhook settles without waiting for what the listeners
\* returned: a run that dispatched and in which no listener threw is resolved
\* with the payload, also while a listener's promise is pending and after
\* such a promise was fulfilled or rejected.
C26_RunSettlesWithoutListenerResults ==
    (/\ pc = "done"
     /\ InTrace("emit")
     /\ \A i \in DOMAIN invoked : invoked[i].outcome # "throws")
    => /\ RunResolved
       /\ result.value = [payload EXCEPT !["data"] = 
              MetadataValidatorParse(validatorKind, ValidatorArgument(payload)).value]

\* a run is resolved, one listener's promise is still pending and another
\* listener's promise was rejected after the run
C26_ResolvedWithPendingAndRejectedPromise ==
    /\ RunResolved
    /\ \E i \in DOMAIN invoked : invoked[i].outcome = "pending"
    /\ \E i \in DOMAIN invoked : invoked[i].outcome = "rejected"

\* C30: whenever processWebhook rejects for a payload, no listener has been
\* invoked for that payload.
C30_RejectedRunInvokedNoListener ==
    RunRejected => invoked = <<>>

----
\* Properties of the source of a payment

\* parsePayment was applied to a body that has a source and that
\* PaymentSchema would accept if its source were a card
WellFormedButForSource ==
    /\ utilCall.fn = "parsePayment"
    /\ utilCall.args[1] # JsNull
    /\ "source" \in DOMAIN utilCall.args[1].obj
    /\ PaymentSchemaAccepts([utilCall.args[1].obj EXCEPT !["source"] = "creditcard"])
    /\ utilCall.args[1].obj["metadata"] = JsNull

\* C28: parsePayment accepts an otherwise well-formed payment whose
\* source.type is any one of the six source types creditcard, applepay,
\* googlepay, samsungpay, stcpay and token.
C28_EverySourceTypeIsParsed ==
    (WellFormedButForSource /\ utilCall.args[1].obj["source"] \in PaymentSource)
    => utilResult.ok

\* C28, as the code has it: parsePayment accepts an otherwise well-formed
\* payment exactly when its source.type is one of the five types of the
\* response union, creditcard, applepay, googlepay, samsungpay and stcpay;
\* token, a source type of create requests only, is rejected like a type
\* that is no PaymentSource.
C28_ResponseSourceTypesAreParsed ==
    WellFormedButForSource
    => (utilResult.ok <=>
            utilCall.args[1].obj["source"] \in PaymentSource \ {"token"})

\* a payment that is well-formed but for its source of type token was
\* rejected
C28_TokenSourceRejected ==
    /\ WellFormedButForSource
    /\ utilCall.args[1].obj["source"] = "token"
    /\ ~utilResult.ok
    /\ utilResult.error.class = "ZodError"

----
\* Properties of the errors the transport raises

\* the case of a failed exchange: no response, one of the statuses 400, 401,
\* 403, 404 and 429, a 5xx status, or another status
ExchangeCase(e) ==
    IF ~e.hasResponse THEN "network"
    ELSE IF e.status \in {400, 401, 403, 404, 429} THEN ToString(e.status)
    ELSE IF e.status \in 500..599 THEN "5xx"
    ELSE "other"

====
